---- MODULE Spec2Model ----
(***************************************************************************)
(* Model of segmentation/cityscapes_drn/segment.py: the active-learning    *)
(* training orchestrator train_seg (sample pools, cycles, epochs, resume,  *)
(* checkpoints, end-of-cycle records).                                     *)
(*                                                                         *)
(* Abstractions.  Validation results (top-1 accuracy, mAP) are small       *)
(* naturals: the code only compares them and takes their maximum.  Model   *)
(* weights are a tag.  The sample selector lives in active_learning_utils, *)
(* which is not part of the sources at hand; it is modelled from the       *)
(* written contract of the selector.                                       *)
(***************************************************************************)
EXTENDS Integers, Sequences, FiniteSets, TLC

\* ------------------------------------------------------------------ bounds
\* size of the training dataset, len(dataset), ranges over 0..MaxN
MaxN == 3
\* ... and over 0..MaxPool in the runs that exercise the sample pools
MaxPool == 5
\* args.epochs ranges over 0..MaxEpochs
MaxEpochs == 2
\* validation scores range over 0..MaxScore
MaxScore == 1
\* args.save_iter ranges over 0..MaxSaveIter
MaxSaveIter == 2
\* args.batch_size ranges over 1..MaxBatch
MaxBatch == 1
\* number of active-learning cycles, range(10) in the code, scaled down
NumCycles == 2
\* images labelled per cycle, 150 in the code, scaled down
images_per_cycle == 2

\* an evaluation pass: class counts 1..MaxClasses, 1..MaxPixels pixels in a
\* batch, at most MaxEvalBatches batches in a pass, MaxEvalPasses passes
MaxClasses == 2
MaxPixels == 2
MaxEvalBatches == 2
MaxEvalPasses == 2

\* the label value of pixels to ignore
ignore_index == 255

\* a meter: values 0..MaxValue, weights 1..MaxWeight, up to MaxUpdates
\* updates between resets
MaxValue == 2
MaxWeight == 2
MaxUpdates == 3

\* the learning-rate schedule: args.step in 1..MaxStep, args.epochs in
\* 1..MaxLrEpochs, 1..MaxGroups parameter groups
MaxStep == 10
MaxLrEpochs == 26
MaxGroups == 2

\* training: args.epochs is MaxTrainEpochs, a loader yields up to
\* MaxTrainBatches batches of 1..MaxTrainBatch images, per-image losses and
\* predicted losses range over 0..MaxLoss
MaxTrainEpochs == 152
MaxTrainBatches == 2
MaxTrainBatch == 3
MaxLoss == 1

\* the ranking loss is blended in after this epoch
warm_up_epoch == 1
\* the loss head is detached from this epoch on
detach_epoch == 150

\* resize_4d_tensor: tensors of 1..MaxImages images of 1..MaxChannels
\* channels, an image being one of 0..MaxImage
MaxImages == 2
MaxChannels == 2
MaxImage == 1

\* ----------------------------------------------------------------- helpers
Min(a, b) == IF a < b THEN a ELSE b

\* Python max(a, b)
max(a, b) == IF a > b THEN a ELSE b

Range(s) == {s[i] : i \in 1..Len(s)}

\* list(range(n)): the indices 0..n-1 in order
range(n) == [i \in 1..n |-> i - 1]

Scores == 0..MaxScore

\* ------------------------------------------------------------- checkpoints
\* a path at which no file exists
NoFile == [exists |-> FALSE]

\* the dict handed to torch.save by train_seg ('arch' is a constant string)
Checkpoint(e, bp, bm, sd) ==
    [exists |-> TRUE, epoch |-> e, best_prec1 |-> bp, best_mAP |-> bm,
     state_dict |-> sd]

\* os.path.join(args.save_path, 'checkpoint_latest.pth.tar'),
\* 'model_best.pth.tar', and a path outside the run's outputs
Paths == {"latest", "best", "ext"}

\* 'checkpoint_{:03d}.pth.tar'.format(n): the decimal digits of n, zero
\* padded to at least three places
RECURSIVE Digits(_)
Digits(n) == IF n < 10 THEN <<n>> ELSE Append(Digits(n \div 10), n % 10)

history_path(n) ==
    LET d == Digits(n)
    IN  IF Len(d) >= 3 THEN d
        ELSE [i \in 1..3 |-> IF i <= 3 - Len(d) THEN 0 ELSE d[i - (3 - Len(d))]]

HistoryPaths == {history_path(n) : n \in 1..MaxEpochs}

\* ------------------------------------------------------------------- state
VARIABLES
    pc,                     \* position in main / train_seg
    failure,                \* the exception that ended the run, or "none"
    args,                   \* the parsed command line
    dataset_len,            \* len(dataset)
    cycle,                  \* loop variable of the cycle loop
    epoch,                  \* loop variable of the epoch loop
    unlabeled_idx,          \* list of unlabeled indices
    labeled_idx,            \* list of labeled indices, append only
    new_indices,            \* result of the last selection
    validation_accuracies,  \* one entry per completed cycle
    validation_mAPs,        \* one entry per completed cycle
    model,                  \* tag of the weights held by the model
    best_prec1,
    best_mAP,
    start_epoch,
    prec1,                  \* result of the last validation pass
    mAP1,
    fs,                     \* checkpoint files: Paths -> checkpoint or NoFile
    history,                \* archive files: HistoryPaths -> checkpoint or NoFile
    \* observation variables (no counterpart in the code)
    selections,             \* number of selection steps taken
    csv_writes,             \* number of selection reports written
    train_passes,           \* number of calls of train
    validate_passes,        \* number of calls of validate
    latest_writes,          \* number of torch.save calls on the latest path
    best_writes,            \* number of copies to the best path
    archive_writes,         \* per archive path, number of copies written
    loaded,                 \* checkpoint loaded by this cycle's resume check
    resume_missing,         \* this cycle's resume check found no file
    seen_prec1,             \* best accuracy validated in this cycle's epochs
    seen_mAP,               \* best mAP validated in this cycle's epochs
    cycle_epochs,           \* epoch indices trained in this cycle
    optimizer_steps         \* number of optimizer.step calls

\* the variables of main / train_seg
segVars == <<pc, failure, args, dataset_len, cycle, epoch, unlabeled_idx,
          labeled_idx, new_indices, validation_accuracies, validation_mAPs,
          model, best_prec1, best_mAP, start_epoch, prec1, mAP1, fs, history,
          selections, csv_writes, train_passes, validate_passes,
          latest_writes, best_writes, archive_writes, loaded, resume_missing,
          seen_prec1, seen_mAP, cycle_epochs, optimizer_steps>>

poolVars == <<dataset_len, unlabeled_idx, labeled_idx, new_indices,
              selections, csv_writes>>
recordVars == <<validation_accuracies, validation_mAPs>>
trackerVars == <<best_prec1, best_mAP, start_epoch>>
fileVars == <<fs, history, latest_writes, best_writes, archive_writes>>
cycleObs == <<loaded, resume_missing, seen_prec1, seen_mAP, cycle_epochs>>
passVars == <<train_passes, validate_passes, optimizer_steps>>

\* ------------------------------------------------- state of an evaluation pass
VARIABLES
    eval_pc,                \* "idle" between passes, "loop" inside one
    eval_fn,                \* the function running the pass
    has_gt,                 \* test, test_ms: ground truth is available
    num_classes,
    hist,                   \* confusion histogram: <<label, pred>> -> count
    pred,                   \* flattened predictions of the last batch
    label,                  \* flattened labels of the last batch
    batch_hist,             \* fast_hist of the last batch
    current_mAP,            \* np.nanmean(per_class_iu(hist)) after the last batch
    \* observation variables
    eval_batches,           \* batches consumed by the running pass
    eval_passes,            \* passes started
    carried                 \* pixels counted by the pass before the running one

evalVars == <<eval_pc, eval_fn, has_gt, num_classes, hist, pred, label,
              batch_hist, current_mAP, eval_batches, eval_passes, carried>>

VARIABLES
    \* ---- an AverageMeter
    val,
    avg,
    sum,
    count,
    \* observation variable
    updates                 \* the update(val, n) calls since the last reset

meterVars == <<val, avg, sum, count, updates>>

VARIABLES
    \* ---- adjust_learning_rate, called by the epoch loop
    lr_pc,
    lr_args,                \* args.lr_mode, args.step, args.epochs, args.lr
    lr_epoch,
    param_groups,           \* the 'lr' of each of optimizer.param_groups
    lr                      \* the value returned

lrVars == <<lr_pc, lr_args, lr_epoch, param_groups, lr>>

VARIABLES
    \* ---- train, called by the epoch loop of each cycle
    train_pc,
    train_cycle,
    train_epoch,
    use_loss_prediction_al,
    batch_i,                \* i, the index of the batch
    total_ranked,
    correctly_ranked,
    loss,                   \* the terms of the loss back-propagated last
    detach_lp,              \* the last forward pass detached the loss head
    batch_size,             \* loss.shape[0] of the last batch ranked
    \* observation variable
    ranked_batches          \* batches of the call that went through ranking

trainVars == <<train_pc, train_cycle, train_epoch, use_loss_prediction_al,
               batch_i, total_ranked, correctly_ranked, loss, detach_lp,
               batch_size, ranked_batches>>

VARIABLES
    \* ---- resize_4d_tensor
    resize_pc,
    tensor,                 \* tensor_cpu: <<i, j>> -> image
    size_matches,           \* the tensor already has the size asked for
    out,                    \* <<i, j>> -> image, or not written yet
    workers,                \* j -> position of the thread of channel j
    joined,                 \* number of workers the caller has joined
    returned,               \* the value returned
    \* observation variable
    writers                 \* <<i, j>> -> the workers' writes, in order

resizeVars == <<resize_pc, tensor, size_matches, out, workers, joined,
                returned, writers>>

\* the variables of the other functions of the module
compVars == <<evalVars, meterVars, lrVars, trainVars, resizeVars>>

\* all variables but those of one function
notEval == <<segVars, meterVars, lrVars, trainVars, resizeVars>>
notMeter == <<segVars, evalVars, lrVars, trainVars, resizeVars>>
notLr == <<segVars, evalVars, meterVars, trainVars, resizeVars>>
notTrain == <<segVars, evalVars, meterVars, lrVars, resizeVars>>
notResize == <<segVars, evalVars, meterVars, lrVars, trainVars>>

vars == <<segVars, compVars>>

\* a float that is a quotient of integers, not-a-number, or infinite
Num(n, d) == [kind |-> "num", n |-> n, d |-> d]
NaN == [kind |-> "nan"]
Inf == [kind |-> "inf"]

\* no evaluation pass is in the picture
EvalIdle ==
    /\ eval_pc = "off"
    /\ eval_fn = "none"
    /\ has_gt = FALSE
    /\ num_classes = 0
    /\ hist = <<>>
    /\ pred = <<>>
    /\ label = <<>>
    /\ batch_hist = <<>>
    /\ current_mAP = NaN
    /\ eval_batches = 0
    /\ eval_passes = 0
    /\ carried = 0

\* no meter is in the picture
MeterIdle ==
    /\ val = 0
    /\ avg = Num(0, 1)
    /\ sum = 0
    /\ count = 0
    /\ updates = <<>>

\* adjust_learning_rate is not in the picture
LrIdle ==
    /\ lr_pc = "off"
    /\ lr_args = <<>>
    /\ lr_epoch = 0
    /\ param_groups = <<>>
    /\ lr = <<>>

\* train is not in the picture
TrainIdle ==
    /\ train_pc = "off"
    /\ train_cycle = 0
    /\ train_epoch = 0
    /\ use_loss_prediction_al = FALSE
    /\ batch_i = 0
    /\ total_ranked = 0
    /\ correctly_ranked = 0
    /\ loss = {}
    /\ detach_lp = FALSE
    /\ batch_size = 0
    /\ ranked_batches = 0

\* resize_4d_tensor is not in the picture
ResizeIdle ==
    /\ resize_pc = "off"
    /\ tensor = <<>>
    /\ size_matches = FALSE
    /\ out = <<>>
    /\ workers = <<>>
    /\ joined = 0
    /\ returned = <<>>
    /\ writers = <<>>

OthersIdle == EvalIdle /\ MeterIdle /\ LrIdle /\ TrainIdle /\ ResizeIdle

\* ------------------------------------------------------------ command line
LrModes == {"step", "poly", "cosine"}

\* "" is the default of --resume (no resume)
ResumePaths == {"", "ext", "latest"}

Args ==
    [classes : {0, 1},
     lr_mode : LrModes,
     epochs : 0..MaxEpochs,
     save_iter : 0..MaxSaveIter,
     batch_size : 1..MaxBatch,
     evaluate : BOOLEAN,
     resume : ResumePaths,
     output_superannotate_csv_file : BOOLEAN]

\* checkpoints an earlier run of the orchestrator may have left behind
EarlierCheckpoints ==
    {Checkpoint(e, bp, bm, "ckpt") :
        e \in 1..MaxEpochs, bp \in Scores, bm \in Scores}

\* command lines of the runs that exercise the sample pools: no resume, one
\* epoch per cycle
PoolArgs ==
    {a \in Args : a.resume = "" /\ a.epochs = 1 /\ a.save_iter <= 1}

\* state on entry of main, for a set of command lines and a largest dataset
InitState(A, maxlen) ==
    /\ pc = "parse_args"
    /\ failure = "none"
    /\ args \in A
    /\ dataset_len \in 0..maxlen
    /\ cycle = 0
    /\ epoch = 0
    /\ unlabeled_idx = range(dataset_len)
    /\ labeled_idx = <<>>
    /\ new_indices = <<>>
    /\ validation_accuracies = <<>>
    /\ validation_mAPs = <<>>
    /\ model = "none"
    /\ best_prec1 = 0
    /\ best_mAP = 0
    /\ start_epoch = 0
    /\ prec1 = 0
    /\ mAP1 = 0
    /\ \E ext \in {NoFile} \cup EarlierCheckpoints :
          /\ (args.resume # "ext" => ext = NoFile)
          /\ fs = [p \in Paths |-> IF p = "ext" THEN ext ELSE NoFile]
    /\ history = [h \in HistoryPaths |-> NoFile]
    /\ selections = 0
    /\ csv_writes = 0
    /\ train_passes = 0
    /\ validate_passes = 0
    /\ latest_writes = 0
    /\ best_writes = 0
    /\ archive_writes = [h \in HistoryPaths |-> 0]
    /\ loaded = NoFile
    /\ resume_missing = FALSE
    /\ seen_prec1 = 0
    /\ seen_mAP = 0
    /\ cycle_epochs = <<>>
    /\ optimizer_steps = 0

Init == InitState(Args, MaxN) /\ OthersIdle

InitPool == InitState(PoolArgs, MaxPool) /\ OthersIdle

\* main is not in the picture
SegIdle ==
    InitState({[classes |-> 1, lr_mode |-> "step", epochs |-> 0,
                save_iter |-> 1, batch_size |-> 1, evaluate |-> FALSE,
                resume |-> "", output_superannotate_csv_file |-> FALSE]}, 0)

\* ------------------------------------------------------------- parse_args
\* assert args.classes > 0, then main dispatches to train_seg
parse_args ==
    /\ pc = "parse_args"
    /\ IF args.classes > 0
         THEN pc' = "cycle" /\ failure' = failure
         ELSE pc' = "failed" /\ failure' = "AssertionError"
    /\ UNCHANGED <<args, cycle, epoch, model, prec1, mAP1>>
    /\ UNCHANGED <<poolVars, recordVars, trackerVars, fileVars, cycleObs,
                   passVars>>
    /\ UNCHANGED compVars

\* -------------------------------------------------------------- train_seg
\* head of the cycle loop and construction of the cycle's model
begin_cycle ==
    /\ pc = "cycle"
    /\ IF cycle < NumCycles
         THEN /\ pc' = "select"
              /\ model' = "pretrained"
              /\ loaded' = NoFile
              /\ resume_missing' = FALSE
              /\ seen_prec1' = 0
              /\ seen_mAP' = 0
              /\ cycle_epochs' = <<>>
         ELSE /\ pc' = "done"
              /\ UNCHANGED <<model, cycleObs>>
    /\ UNCHANGED <<failure, args, cycle, epoch, prec1, mAP1>>
    /\ UNCHANGED <<poolVars, recordVars, trackerVars, fileVars, passVars>>
    /\ UNCHANGED compVars

\* The selector's contract: the budget highest-scoring indices of the
\* unlabeled pool, the whole pool when the budget exceeds it.  Scores are
\* outputs of the network, so any choice and any order is possible.
select(U, b) ==
    LET k == Min(b, Len(U))
    IN  {s \in [1..k -> Range(U)] : \A i, j \in 1..k : s[i] = s[j] => i = j}

\* the selector removes what it selected from the unlabeled list
remove_selected(U, s) == SelectSeq(U, LAMBDA x : x \notin Range(s))

\* choose_new_labeled_indices(..., labeled_idx, unlabeled_idx, ...,
\* images_per_cycle, ...): the possible pairs of result and unlabeled list
choose_new_labeled_indices(L, U, b) ==
    {[new_indices |-> s, unlabeled_idx |-> remove_selected(U, s)] :
        s \in select(U, b)}

\* choose_new_labeled_indices_using_gt(..., unlabeled_idx, ...,
\* images_per_cycle): the oracle strategy, same contract
choose_new_labeled_indices_using_gt(U, b) ==
    {[new_indices |-> s, unlabeled_idx |-> remove_selected(U, s)] :
        s \in select(U, b)}

\* slip: the labeled list is left as it was
extend_dropped(L, new) == L

\* slip: the labeled list is replaced by the new indices
extend_replaces(L, new) == new

\* labeled_idx.extend(new_indices)
extend(L, new) == L \o new

\* slip: the batch size is handed over as the budget
select_samples_wrong_budget ==
    /\ pc = "select"
    /\ \E choose_images_with_highest_loss \in BOOLEAN :
       \E r \in (IF choose_images_with_highest_loss
                 THEN choose_new_labeled_indices_using_gt(
                          unlabeled_idx, args.batch_size)
                 ELSE choose_new_labeled_indices(
                          labeled_idx, unlabeled_idx, args.batch_size)) :
          /\ new_indices' = r.new_indices
          /\ unlabeled_idx' = r.unlabeled_idx
          /\ labeled_idx' = extend(labeled_idx, r.new_indices)
    /\ selections' = selections + 1
    /\ csv_writes' = IF args.output_superannotate_csv_file
                       THEN csv_writes + 1 ELSE csv_writes
    /\ pc' = "resume"
    /\ UNCHANGED <<failure, args, dataset_len, cycle, epoch, model, prec1,
                   mAP1>>
    /\ UNCHANGED <<recordVars, trackerVars, fileVars, cycleObs, passVars>>
    /\ UNCHANGED compVars

\* selection step of a cycle: choose, extend the labeled pool, report
select_samples ==
    /\ pc = "select"
    /\ \E choose_images_with_highest_loss \in BOOLEAN :
       \E r \in (IF choose_images_with_highest_loss
                 THEN choose_new_labeled_indices_using_gt(
                          unlabeled_idx, images_per_cycle)
                 ELSE choose_new_labeled_indices(
                          labeled_idx, unlabeled_idx, images_per_cycle)) :
          /\ new_indices' = r.new_indices
          /\ unlabeled_idx' = r.unlabeled_idx
          /\ labeled_idx' = extend(labeled_idx, r.new_indices)
    /\ selections' = selections + 1
    /\ csv_writes' = IF args.output_superannotate_csv_file
                       THEN csv_writes + 1 ELSE csv_writes
    /\ pc' = "resume"
    /\ UNCHANGED <<failure, args, dataset_len, cycle, epoch, model, prec1,
                   mAP1>>
    /\ UNCHANGED <<recordVars, trackerVars, fileVars, cycleObs, passVars>>
    /\ UNCHANGED compVars

\* os.path.isfile
isfile(p) == fs[p].exists

\* slip: the checkpoint is loaded without the os.path.isfile test, so a
\* missing file ends the run
resume_check_missing_fatal ==
    /\ pc = "resume"
    /\ IF args.resume # ""
         THEN IF isfile(args.resume)
                THEN LET checkpoint == fs[args.resume]
                     IN  /\ start_epoch' = checkpoint.epoch
                         /\ best_prec1' = checkpoint.best_prec1
                         /\ best_mAP' = 0
                         /\ model' = checkpoint.state_dict
                         /\ loaded' = checkpoint
                         /\ resume_missing' = FALSE
                         /\ pc' = "evaluate"
                         /\ failure' = failure
                ELSE /\ start_epoch' = 0
                     /\ best_prec1' = 0
                     /\ best_mAP' = 0
                     /\ model' = model
                     /\ loaded' = NoFile
                     /\ resume_missing' = TRUE
                     /\ pc' = "failed"
                     /\ failure' = "FileNotFoundError"
         ELSE /\ start_epoch' = 0
              /\ best_prec1' = 0
              /\ best_mAP' = 0
              /\ model' = model
              /\ loaded' = NoFile
              /\ resume_missing' = FALSE
              /\ pc' = "evaluate"
              /\ failure' = failure
    /\ UNCHANGED <<args, cycle, epoch, prec1, mAP1, seen_prec1, seen_mAP,
                   cycle_epochs>>
    /\ UNCHANGED <<poolVars, recordVars, fileVars, passVars>>
    /\ UNCHANGED compVars

resume_check_first_cycle_only ==
    /\ pc = "resume"
    /\ IF cycle = 0 /\ args.resume # "" /\ isfile(args.resume)
         THEN LET checkpoint == fs[args.resume]
              IN  /\ start_epoch' = checkpoint.epoch
                  /\ best_prec1' = checkpoint.best_prec1
                  /\ best_mAP' = 0
                  /\ model' = checkpoint.state_dict
                  /\ loaded' = checkpoint
                  /\ resume_missing' = FALSE
         ELSE /\ start_epoch' = 0
              /\ best_prec1' = 0
              /\ best_mAP' = 0
              /\ model' = model
              /\ loaded' = NoFile
              /\ resume_missing' = (args.resume # "" /\ ~isfile(args.resume))
    /\ pc' = "evaluate"
    /\ UNCHANGED <<failure, args, cycle, epoch, prec1, mAP1, seen_prec1,
                   seen_mAP, cycle_epochs>>
    /\ UNCHANGED <<poolVars, recordVars, fileVars, passVars>>
    /\ UNCHANGED compVars

\* reset of the trackers, then the optional resume from a checkpoint
resume_check ==
    /\ pc = "resume"
    /\ IF args.resume # "" /\ isfile(args.resume)
         THEN LET checkpoint == fs[args.resume]
              IN  /\ start_epoch' = checkpoint.epoch
                  /\ best_prec1' = checkpoint.best_prec1
                  /\ best_mAP' = 0
                  /\ model' = checkpoint.state_dict
                  /\ loaded' = checkpoint
                  /\ resume_missing' = FALSE
         ELSE /\ start_epoch' = 0
              /\ best_prec1' = 0
              /\ best_mAP' = 0
              /\ model' = model
              /\ loaded' = NoFile
              /\ resume_missing' = (args.resume # "")
    /\ pc' = "evaluate"
    /\ UNCHANGED <<failure, args, cycle, epoch, prec1, mAP1, seen_prec1,
                   seen_mAP, cycle_epochs>>
    /\ UNCHANGED <<poolVars, recordVars, fileVars, passVars>>
    /\ UNCHANGED compVars

\* slip: the return after the validation pass is missing
evaluate_falls_through ==
    /\ pc = "evaluate"
    /\ validate_passes' =
          IF args.evaluate THEN validate_passes + 1 ELSE validate_passes
    /\ pc' = "epoch"
    /\ epoch' = start_epoch
    /\ UNCHANGED <<failure, args, cycle, model, prec1, mAP1, train_passes,
                   optimizer_steps>>
    /\ UNCHANGED <<poolVars, recordVars, trackerVars, fileVars, cycleObs>>
    /\ UNCHANGED compVars

\* if args.evaluate: validate(...); return -- otherwise enter the epoch loop
evaluate ==
    /\ pc = "evaluate"
    /\ IF args.evaluate
         THEN /\ validate_passes' = validate_passes + 1
              /\ pc' = "done"
              /\ epoch' = epoch
         ELSE /\ validate_passes' = validate_passes
              /\ pc' = "epoch"
              /\ epoch' = start_epoch
    /\ UNCHANGED <<failure, args, cycle, model, prec1, mAP1, train_passes,
                   optimizer_steps>>
    /\ UNCHANGED <<poolVars, recordVars, trackerVars, fileVars, cycleObs>>
    /\ UNCHANGED compVars

\* adjust_learning_rate raises ValueError on an unknown mode
adjust_learning_rate_raises(a) == a.lr_mode \notin {"step", "poly"}

\* head of the epoch loop, range(start_epoch, args.epochs), and the call of
\* adjust_learning_rate
epoch_loop ==
    /\ pc = "epoch"
    /\ IF epoch < args.epochs
         THEN IF adjust_learning_rate_raises(args)
                THEN pc' = "failed" /\ failure' = "ValueError"
                ELSE pc' = "train" /\ failure' = failure
         ELSE pc' = "end_cycle" /\ failure' = failure
    /\ UNCHANGED <<args, cycle, epoch, model, prec1, mAP1>>
    /\ UNCHANGED <<poolVars, recordVars, trackerVars, fileVars, cycleObs,
                   passVars>>
    /\ UNCHANGED compVars

\* len(train_loader) with drop_last=True
len_train_loader == Len(labeled_idx) \div args.batch_size

\* one call of train: one optimizer step per batch of the labeled pool
train ==
    /\ pc = "train"
    /\ train_passes' = train_passes + 1
    /\ optimizer_steps' = optimizer_steps + len_train_loader
    /\ model' = IF len_train_loader > 0 THEN "trained" ELSE model
    /\ cycle_epochs' = Append(cycle_epochs, epoch)
    /\ pc' = "validate"
    /\ UNCHANGED <<failure, args, cycle, epoch, prec1, mAP1, validate_passes,
                   loaded, resume_missing, seen_prec1, seen_mAP>>
    /\ UNCHANGED <<poolVars, recordVars, trackerVars, fileVars>>
    /\ UNCHANGED compVars

\* prec1, mAP1 = validate(...): the scores depend on the network
validate ==
    /\ pc = "validate"
    /\ \E p \in Scores, m \in Scores : prec1' = p /\ mAP1' = m
    /\ validate_passes' = validate_passes + 1
    /\ pc' = "checkpoint"
    /\ UNCHANGED <<failure, args, cycle, epoch, model, train_passes,
                   optimizer_steps>>
    /\ UNCHANGED <<poolVars, recordVars, trackerVars, fileVars, cycleObs>>
    /\ UNCHANGED compVars

\* slip: an epoch that only equals the best so far counts as best
is_best_not_strict == prec1 >= best_prec1

\* is_best = prec1 > best_prec1
is_best == prec1 > best_prec1

\* update of the trackers, save_checkpoint, archive copy, end of loop body
checkpoint ==
    /\ pc = "checkpoint"
    /\ best_prec1' = max(prec1, best_prec1)
    /\ best_mAP' = max(mAP1, best_mAP)
    /\ LET state == Checkpoint(epoch + 1, best_prec1', best_mAP', model)
           written == [fs EXCEPT !["latest"] = state,
                                 !["best"] = IF is_best THEN state ELSE @]
       IN  /\ fs' = written
           /\ latest_writes' = latest_writes + 1
           /\ best_writes' = IF is_best THEN best_writes + 1 ELSE best_writes
           /\ IF args.save_iter = 0
                THEN /\ pc' = "failed"
                     /\ failure' = "ZeroDivisionError"
                     /\ UNCHANGED <<history, archive_writes, epoch>>
                ELSE /\ pc' = "epoch"
                     /\ failure' = failure
                     /\ epoch' = epoch + 1
                     /\ IF (epoch + 1) % args.save_iter = 0
                          THEN LET h == history_path(epoch + 1)
                               IN  /\ history' =
                                        [history EXCEPT ![h] = written["latest"]]
                                   /\ archive_writes' =
                                        [archive_writes EXCEPT ![h] = @ + 1]
                          ELSE UNCHANGED <<history, archive_writes>>
    /\ seen_prec1' = max(prec1, seen_prec1)
    /\ seen_mAP' = max(mAP1, seen_mAP)
    /\ UNCHANGED <<args, cycle, model, prec1, mAP1, start_epoch, loaded,
                   resume_missing, cycle_epochs>>
    /\ UNCHANGED <<poolVars, recordVars, passVars>>
    /\ UNCHANGED compVars

\* validation_accuracies.append(best_prec1); validation_mAPs.append(best_mAP)
end_cycle ==
    /\ pc = "end_cycle"
    /\ validation_accuracies' = Append(validation_accuracies, best_prec1)
    /\ validation_mAPs' = Append(validation_mAPs, best_mAP)
    /\ cycle' = cycle + 1
    /\ pc' = "cycle"
    /\ UNCHANGED <<failure, args, epoch, model, prec1, mAP1>>
    /\ UNCHANGED <<poolVars, trackerVars, fileVars, cycleObs, passVars>>
    /\ UNCHANGED compVars

Next ==
    \/ parse_args
    \/ begin_cycle
    \/ select_samples
    \/ resume_check
    \/ evaluate
    \/ epoch_loop
    \/ train
    \/ validate
    \/ checkpoint
    \/ end_cycle

Spec == Init /\ [][Next]_vars

SpecPool == InitPool /\ [][Next]_vars

\* ======================================================== evaluation passes
\* np.zeros((num_classes, num_classes))
zeros(n) == [e \in (0..(n - 1)) \X (0..(n - 1)) |-> 0]

\* number of elements of the index set I at which f holds the value b
CountOf(f, I, b) == Cardinality({i \in I : f[i] = b})

\* np.bincount(x, minlength=m) for the values x[i], i in I
bincount(x, I, m) ==
    LET top == IF I = {} THEN 0
               ELSE (CHOOSE v \in {x[i] : i \in I} :
                        \A i \in I : x[i] <= v) + 1
        len == IF top > m THEN top ELSE m
    IN  [b \in 0..(len - 1) |-> CountOf(x, I, b)]

\* bins.reshape(n, n); numpy refuses any other size than n * n
reshape(bins, n) ==
    [e \in (0..(n - 1)) \X (0..(n - 1)) |-> bins[n * e[1] + e[2]]]

\* slip: the roles of label and prediction are swapped in the flat index
fast_hist_transposed(prd, lbl, n) ==
    LET k == {i \in 1..Len(lbl) : lbl[i] >= 0 /\ lbl[i] < n}
        x == [i \in k |-> n * prd[i] + lbl[i]]
    IN  reshape(bincount(x, k, n * n), n)

\* fast_hist(pred, label, n)
fast_hist(prd, lbl, n) ==
    LET k == {i \in 1..Len(lbl) : lbl[i] >= 0 /\ lbl[i] < n}
        x == [i \in k |-> n * lbl[i] + prd[i]]
    IN  reshape(bincount(x, k, n * n), n)

\* hist += fast_hist(...)
hist_add(h, b) == [e \in DOMAIN h |-> h[e] + b[e]]

RECURSIVE SumOver(_, _)
SumOver(f, I) ==
    IF I = {} THEN 0
    ELSE LET i == CHOOSE j \in I : TRUE IN f[i] + SumOver(f, I \ {i})

\* hist.sum(1)[c] and hist.sum(0)[c]
row_sum(h, n, c) == SumOver([q \in 0..(n - 1) |-> h[<<c, q>>]], 0..(n - 1))
col_sum(h, n, c) == SumOver([g \in 0..(n - 1) |-> h[<<g, c>>]], 0..(n - 1))

\* numpy's a / b on non-negative floats
np_divide(a, b) ==
    IF b # 0 THEN Num(a, b) ELSE IF a = 0 THEN NaN ELSE Inf

\* per_class_iu(hist)
per_class_iu(h, n) ==
    [c \in 0..(n - 1) |->
        np_divide(h[<<c, c>>],
                  row_sum(h, n, c) + col_sum(h, n, c) - h[<<c, c>>])]

\* a + b on floats
np_add(a, b) ==
    IF a.kind = "nan" \/ b.kind = "nan" THEN NaN
    ELSE IF a.kind = "inf" \/ b.kind = "inf" THEN Inf
    ELSE Num(a.n * b.d + b.n * a.d, a.d * b.d)

\* sum of v[0], ..., v[c - 1], skipping the NaNs when skip is set
RECURSIVE np_sum(_, _, _)
np_sum(v, c, skip) ==
    IF c = 0 THEN Num(0, 1)
    ELSE IF skip /\ v[c - 1].kind = "nan" THEN np_sum(v, c - 1, skip)
    ELSE np_add(np_sum(v, c - 1, skip), v[c - 1])

\* slip: np.mean, which lets a NaN through
nanmean_plain(v, n) ==
    LET total == np_sum(v, n, FALSE)
    IN  IF total.kind = "num" THEN Num(total.n, total.d * n) ELSE total

\* np.nanmean(v) over the n entries of v
nanmean(v, n) ==
    LET kept == Cardinality({c \in 0..(n - 1) : v[c].kind # "nan"})
        total == np_sum(v, n, TRUE)
    IN  IF kept = 0 THEN NaN
        ELSE IF total.kind = "num" THEN Num(total.n, total.d * kept)
        ELSE total

\* the flattened predictions and labels a batch of p pixels can hold
Preds(n, p) == [1..p -> 0..(n - 1)]
Labels(n, p) == [1..p -> {-1, ignore_index} \cup 0..n]

\* pixels counted in a histogram
Total(h) == SumOver(h, DOMAIN h)

\* entry of a pass: hist = np.zeros((num_classes, num_classes))
start_pass(gt) ==
    /\ eval_pc = "idle"
    /\ eval_passes < MaxEvalPasses
    /\ eval_pc' = "loop"
    /\ has_gt' = gt
    /\ hist' = zeros(num_classes)
    /\ carried' = Total(hist)
    /\ eval_batches' = 0
    /\ eval_passes' = eval_passes + 1
    /\ current_mAP' = NaN
    /\ UNCHANGED <<num_classes, pred, label, batch_hist, notEval>>

\* slip: the histogram of the pass before is kept
validate_begin_keeps_hist ==
    /\ eval_fn' = "validate"
    /\ eval_pc = "idle"
    /\ eval_passes < MaxEvalPasses
    /\ eval_pc' = "loop"
    /\ has_gt' = TRUE
    /\ hist' = hist
    /\ carried' = Total(hist)
    /\ eval_batches' = 0
    /\ eval_passes' = eval_passes + 1
    /\ current_mAP' = NaN
    /\ UNCHANGED <<num_classes, pred, label, batch_hist, notEval>>

\* validate, up to its batch loop; the labels are always there
validate_begin ==
    /\ eval_fn' = "validate"
    /\ start_pass(TRUE)

\* test, up to its batch loop
test_begin ==
    /\ eval_fn' = "test"
    /\ \E gt \in BOOLEAN : start_pass(gt)

\* test_ms, up to its batch loop
test_ms_begin ==
    /\ eval_fn' = "test_ms"
    /\ \E gt \in BOOLEAN : start_pass(gt)

\* one turn of the batch loop of a pass: predict, and with ground truth add
\* the batch to the histogram and report the mean IoU
pass_batch ==
    /\ eval_pc = "loop"
    /\ eval_batches < MaxEvalBatches
    /\ IF has_gt
         THEN \E p \in 1..MaxPixels :
              \E prd \in Preds(num_classes, p), lbl \in Labels(num_classes, p) :
                 /\ hist' = hist_add(hist, fast_hist(prd, lbl, num_classes))
                 /\ current_mAP' =
                      nanmean(per_class_iu(hist', num_classes), num_classes)
         ELSE UNCHANGED <<hist, current_mAP>>
    /\ eval_batches' = eval_batches + 1
    /\ UNCHANGED <<eval_pc, eval_fn, has_gt, num_classes, eval_passes,
                   carried, pred, label, batch_hist, notEval>>

\* turn of the batch loop of validate
validate_batch ==
    /\ eval_fn = "validate"
    /\ pass_batch

\* turn of the batch loop of test
test_batch ==
    /\ eval_fn = "test"
    /\ pass_batch

\* turn of the batch loop of test_ms
test_ms_batch ==
    /\ eval_fn = "test_ms"
    /\ pass_batch

\* the loader is exhausted and the pass returns
pass_end ==
    /\ eval_pc = "loop"
    /\ eval_pc' = "idle"
    /\ UNCHANGED <<eval_fn, has_gt, num_classes, hist, pred, label,
                   batch_hist, current_mAP, eval_batches, eval_passes,
                   carried, notEval>>

\* before the first pass
EvalStart ==
    /\ eval_pc = "idle"
    /\ eval_fn = "none"
    /\ has_gt = FALSE
    /\ num_classes \in 1..MaxClasses
    /\ hist = zeros(num_classes)
    /\ pred = <<>>
    /\ label = <<>>
    /\ batch_hist = <<>>
    /\ current_mAP = NaN
    /\ eval_batches = 0
    /\ eval_passes = 0
    /\ carried = 0

InitEval ==
    SegIdle /\ EvalStart /\ MeterIdle /\ LrIdle /\ TrainIdle /\ ResizeIdle

NextEval ==
    \/ validate_begin
    \/ test_begin
    \/ test_ms_begin
    \/ validate_batch
    \/ test_batch
    \/ test_ms_batch
    \/ pass_end

SpecEval == InitEval /\ [][NextEval]_vars

\* ---------------------------------------------------- fast_hist on its own
\* a call of fast_hist on flattened arrays of up to MaxPixels pixels
fast_hist_call ==
    /\ eval_pc = "call"
    /\ batch_hist' = fast_hist(pred, label, num_classes)
    /\ eval_pc' = "returned"
    /\ UNCHANGED <<eval_fn, has_gt, num_classes, hist, pred, label,
                   current_mAP, eval_batches, eval_passes, carried, notEval>>

InitHist ==
    /\ SegIdle /\ MeterIdle /\ LrIdle /\ TrainIdle /\ ResizeIdle
    /\ eval_pc = "call"
    /\ eval_fn = "fast_hist"
    /\ has_gt = TRUE
    /\ num_classes \in 1..MaxClasses
    /\ \E p \in 0..MaxPixels :
          /\ pred \in Preds(num_classes, p)
          /\ label \in Labels(num_classes, p)
    /\ hist = <<>>
    /\ batch_hist = <<>>
    /\ current_mAP = NaN
    /\ eval_batches = 0
    /\ eval_passes = 0
    /\ carried = 0

NextHist == fast_hist_call

SpecHist == InitHist /\ [][NextHist]_vars

\* ------------------------------------------------------------ AverageMeter
\* the values fed to a meter; the weights: a batch's size, or the default 1
MeterValues == 0..MaxValue
Weights == 1..MaxWeight

\* a / b on numbers, b not zero
true_div(a, b) == Num(a, b)

\* AverageMeter.__init__
AverageMeter_init ==
    /\ val = 0
    /\ avg = Num(0, 1)
    /\ sum = 0
    /\ count = 0
    /\ updates = <<>>

\* AverageMeter.reset
reset ==
    /\ val' = 0
    /\ avg' = Num(0, 1)
    /\ sum' = 0
    /\ count' = 0
    /\ updates' = <<>>
    /\ UNCHANGED notMeter

update_ignores_weight(v, n) ==
    /\ Len(updates) < MaxUpdates
    /\ val' = v
    /\ sum' = sum + v
    /\ count' = count + n
    /\ avg' = true_div(sum', count')
    /\ updates' = Append(updates, [val |-> v, n |-> n])
    /\ UNCHANGED notMeter

\* AverageMeter.update(val, n)
update(v, n) ==
    /\ Len(updates) < MaxUpdates
    /\ val' = v
    /\ sum' = sum + v * n
    /\ count' = count + n
    /\ avg' = true_div(sum', count')
    /\ updates' = Append(updates, [val |-> v, n |-> n])
    /\ UNCHANGED notMeter

InitMeter ==
    SegIdle /\ EvalIdle /\ LrIdle /\ TrainIdle /\ ResizeIdle /\ AverageMeter_init

NextMeter ==
    \/ reset
    \/ \E v \in MeterValues, n \in Weights : update(v, n)

SpecMeter == InitMeter /\ [][NextMeter]_vars

\* ---------------------------------------------------- adjust_learning_rate
\* base ** exp, kept as written: the values are not quotients of integers
pow(b, x) == [base |-> b, exp |-> x]

\* c * p for a power p
times(c, p) == [coef |-> c, base |-> p.base, exp |-> p.exp]

\* 1 - x
one_minus(x) == Num(x.d - x.n, x.d)

\* a // b on integers, a >= 0 and b > 0
floor_div(a, b) == a \div b

\* the rate the optimizer is built with: args.lr itself
plain(x) == times(x, pow(Num(1, 1), Num(0, 1)))

\* --lr, --step, --epochs, --lr-mode and the number of parameter groups
LrValues == {Num(1, 10), Num(1, 100)}
LrArgs ==
    [lr_mode : LrModes, step : 1..MaxStep, epochs : 1..MaxLrEpochs,
     lr : LrValues]

adjust_learning_rate_one_epoch_early(a, e) ==
    IF a.lr_mode = "step"
    THEN times(a.lr, pow(Num(1, 10), Num(floor_div(e + 1, a.step), 1)))
    ELSE times(a.lr, pow(one_minus(true_div(e + 1, a.epochs)), Num(9, 10)))

\* the rate adjust_learning_rate computes for a known mode
adjust_learning_rate(a, e) ==
    IF a.lr_mode = "step"
    THEN times(a.lr, pow(Num(1, 10), Num(floor_div(e, a.step), 1)))
    ELSE times(a.lr, pow(one_minus(true_div(e, a.epochs)), Num(9, 10)))

\* the call at the head of an epoch of the epoch loop
adjust_learning_rate_call ==
    /\ lr_pc = "loop"
    /\ lr_args.lr_mode \in {"step", "poly"}
    /\ lr' = adjust_learning_rate(lr_args, lr_epoch)
    /\ param_groups' = [g \in DOMAIN param_groups |-> lr']
    /\ lr_pc' = "returned"
    /\ UNCHANGED <<lr_args, lr_epoch, notLr>>

\* ... with a mode that is neither 'step' nor 'poly'
adjust_learning_rate_unknown_mode ==
    /\ lr_pc = "loop"
    /\ lr_args.lr_mode \notin {"step", "poly"}
    /\ lr_pc' = "ValueError"
    /\ UNCHANGED <<lr_args, lr_epoch, param_groups, lr, notLr>>

\* the rest of the epoch, and the loop's next index
next_epoch ==
    /\ lr_pc = "returned"
    /\ lr_epoch + 1 < lr_args.epochs
    /\ lr_epoch' = lr_epoch + 1
    /\ lr_pc' = "loop"
    /\ UNCHANGED <<lr_args, param_groups, lr, notLr>>

InitLr ==
    /\ SegIdle /\ EvalIdle /\ MeterIdle /\ TrainIdle /\ ResizeIdle
    /\ lr_pc = "loop"
    /\ lr_args \in LrArgs
    /\ lr_epoch = 0
    /\ \E g \in 1..MaxGroups : param_groups = [k \in 1..g |-> plain(lr_args.lr)]
    /\ lr = <<>>

NextLr ==
    \/ adjust_learning_rate_call
    \/ adjust_learning_rate_unknown_mode
    \/ next_epoch

SpecLr == InitLr /\ [][NextLr]_vars

\* -------------------------------------------------------------------- train
\* the per-image values of a batch of b images
PerImage(b) == [0..(b - 1) -> 0..MaxLoss]

\* the pairs the ranking loops visit: l1 in range(b), l2 in range(l1)
RankedPairs(b) == {p \in (0..(b - 1)) \X (0..(b - 1)) : p[2] < p[1]}

\* ... and those of them ranked alike by loss and predicted loss
CorrectPairs(b, l, lp) ==
    {p \in RankedPairs(b) :
        (l[p[1]] - l[p[2]]) * (lp[p[1]] - lp[p[2]]) > 0}

\* train is called for the epoch: its counters start at zero
train_begin ==
    /\ train_pc = "epoch_loop"
    /\ train_epoch < MaxTrainEpochs
    /\ total_ranked' = 0
    /\ correctly_ranked' = 0
    /\ batch_i' = 0
    /\ ranked_batches' = 0
    /\ train_pc' = "batches"
    /\ UNCHANGED <<train_cycle, train_epoch, use_loss_prediction_al, loss,
                   detach_lp, batch_size, notTrain>>

train_batch_warm_up_off_by_one ==
    /\ train_pc = "batches"
    /\ batch_i < MaxTrainBatches
    /\ \E b \in 1..MaxTrainBatch :
       \E l \in PerImage(b), lp \in PerImage(b) :
          /\ detach_lp' = (use_loss_prediction_al
                             /\ ~(train_epoch < detach_epoch))
          /\ IF use_loss_prediction_al /\ train_epoch >= warm_up_epoch
             THEN /\ batch_size' = b
                  /\ total_ranked' =
                       total_ranked + Cardinality(RankedPairs(b))
                  /\ correctly_ranked' =
                       correctly_ranked + Cardinality(CorrectPairs(b, l, lp))
                  /\ ranked_batches' = ranked_batches + 1
                  /\ loss' = {"loss.mean()",
                              "active_learning_lamda * loss_prediction_loss"}
             ELSE /\ loss' = {"loss.mean()"}
                  /\ UNCHANGED <<batch_size, total_ranked, correctly_ranked,
                                 ranked_batches>>
    /\ batch_i' = batch_i + 1
    /\ UNCHANGED <<train_pc, train_cycle, train_epoch,
                   use_loss_prediction_al, notTrain>>

\* one batch of the loader: forward pass, loss, ranking counters, step
train_batch ==
    /\ train_pc = "batches"
    /\ batch_i < MaxTrainBatches
    /\ \E b \in 1..MaxTrainBatch :
       \E l \in PerImage(b), lp \in PerImage(b) :
          /\ detach_lp' = (use_loss_prediction_al
                             /\ ~(train_epoch < detach_epoch))
          /\ IF use_loss_prediction_al /\ train_epoch > warm_up_epoch
             THEN /\ batch_size' = b
                  /\ total_ranked' =
                       total_ranked + Cardinality(RankedPairs(b))
                  /\ correctly_ranked' =
                       correctly_ranked + Cardinality(CorrectPairs(b, l, lp))
                  /\ ranked_batches' = ranked_batches + 1
                  /\ loss' = {"loss.mean()",
                              "active_learning_lamda * loss_prediction_loss"}
             ELSE /\ loss' = {"loss.mean()"}
                  /\ UNCHANGED <<batch_size, total_ranked, correctly_ranked,
                                 ranked_batches>>
    /\ batch_i' = batch_i + 1
    /\ UNCHANGED <<train_pc, train_cycle, train_epoch,
                   use_loss_prediction_al, notTrain>>

\* the loader is exhausted: train returns, the epoch loop moves on
train_end ==
    /\ train_pc = "batches"
    /\ train_pc' = "epoch_loop"
    /\ train_epoch' = train_epoch + 1
    /\ UNCHANGED <<train_cycle, use_loss_prediction_al, batch_i, total_ranked,
                   correctly_ranked, loss, detach_lp, batch_size,
                   ranked_batches, notTrain>>

\* the epoch loop is over: the next cycle starts its own at epoch 0
next_cycle ==
    /\ train_pc = "epoch_loop"
    /\ train_epoch = MaxTrainEpochs
    /\ train_cycle + 1 < NumCycles
    /\ train_cycle' = train_cycle + 1
    /\ train_epoch' = 0
    /\ UNCHANGED <<train_pc, use_loss_prediction_al, batch_i, total_ranked,
                   correctly_ranked, loss, detach_lp, batch_size,
                   ranked_batches, notTrain>>

InitTrain ==
    /\ SegIdle /\ EvalIdle /\ MeterIdle /\ LrIdle /\ ResizeIdle
    /\ train_pc = "epoch_loop"
    /\ train_cycle = 0
    /\ train_epoch = 0
    /\ use_loss_prediction_al \in BOOLEAN
    /\ batch_i = 0
    /\ total_ranked = 0
    /\ correctly_ranked = 0
    /\ loss = {}
    /\ detach_lp = FALSE
    /\ batch_size = 0
    /\ ranked_batches = 0

NextTrain ==
    \/ train_begin
    \/ train_batch
    \/ train_end
    \/ next_cycle

SpecTrain == InitTrain /\ [][NextTrain]_vars

\* --------------------------------------------------------- resize_4d_tensor
\* the cells <<i, j>> of a tensor of n images of c channels
Cells(n, c) == (0..(n - 1)) \X (0..(c - 1))

\* Image.fromarray(x).resize((width, height), Image.BILINEAR) as an array
resize(x) == [resized |-> x]

\* a cell of np.empty: whatever the memory held
Uninitialized == [garbage |-> TRUE]

\* the tensors the function is called on
Tensors ==
    UNION {[n : {n}, c : {c}, data : [Cells(n, c) -> 0..MaxImage]] :
             n \in 1..MaxImages, c \in 1..MaxChannels}

\* the result of resizing cell by cell, in sequence
sequential(t) == [cell \in Cells(t.n, t.c) |-> resize(t.data[cell])]

\* the tensor already has the size asked for: it is returned as it is
return_tensor_cpu ==
    /\ resize_pc = "call"
    /\ size_matches
    /\ returned' = tensor.data
    /\ resize_pc' = "returned"
    /\ UNCHANGED <<tensor, size_matches, out, workers, joined, writers,
                   notResize>>

\* out = np.empty(...); one Thread per channel j, not started yet
create_workers ==
    /\ resize_pc = "call"
    /\ ~size_matches
    /\ out' = [cell \in Cells(tensor.n, tensor.c) |-> Uninitialized]
    /\ writers' = [cell \in Cells(tensor.n, tensor.c) |-> <<>>]
    /\ workers' = [j \in 0..(tensor.c - 1) |-> [state |-> "created", i |-> 0]]
    /\ resize_pc' = "start"
    /\ UNCHANGED <<tensor, size_matches, joined, returned, notResize>>

\* for w in workers: w.start()
start ==
    /\ resize_pc = "start"
    /\ \E j \in DOMAIN workers :
          /\ workers[j].state = "created"
          /\ \A k \in DOMAIN workers : k < j => workers[k].state # "created"
          /\ workers' = [workers EXCEPT ![j].state = "running"]
          /\ resize_pc' = IF j = tensor.c - 1 THEN "join" ELSE "start"
    /\ UNCHANGED <<tensor, size_matches, out, joined, returned, writers,
                   notResize>>

\* one iteration of the loop of resize_channel(j), in its thread
resize_channel(j) ==
    /\ workers[j].state = "running"
    /\ LET i == workers[j].i
       IN  /\ out' = [out EXCEPT ![<<i, j>>] = resize(tensor.data[<<i, j>>])]
           /\ writers' = [writers EXCEPT ![<<i, j>>] = Append(@, j)]
           /\ workers' = [workers EXCEPT
                            ![j] = [state |-> IF i + 1 = tensor.n
                                              THEN "finished" ELSE "running",
                                    i |-> i + 1]]
    /\ UNCHANGED <<resize_pc, tensor, size_matches, joined, returned,
                   notResize>>

join_without_waiting ==
    /\ resize_pc = "join"
    /\ joined < tensor.c
    /\ joined' = joined + 1
    /\ UNCHANGED <<resize_pc, tensor, size_matches, out, workers, returned,
                   writers, notResize>>

\* for w in workers: w.join(), which waits for the thread to finish
join ==
    /\ resize_pc = "join"
    /\ joined < tensor.c
    /\ workers[joined].state = "finished"
    /\ joined' = joined + 1
    /\ UNCHANGED <<resize_pc, tensor, size_matches, out, workers, returned,
                   writers, notResize>>

\* return out
return_out ==
    /\ resize_pc = "join"
    /\ joined = tensor.c
    /\ returned' = out
    /\ resize_pc' = "returned"
    /\ UNCHANGED <<tensor, size_matches, out, workers, joined, writers,
                   notResize>>

InitResize ==
    /\ SegIdle /\ EvalIdle /\ MeterIdle /\ LrIdle /\ TrainIdle
    /\ resize_pc = "call"
    /\ tensor \in Tensors
    /\ size_matches \in BOOLEAN
    /\ out = <<>>
    /\ workers = <<>>
    /\ joined = 0
    /\ returned = <<>>
    /\ writers = <<>>

NextResize ==
    \/ return_tensor_cpu
    \/ create_workers
    \/ start
    \/ \E j \in DOMAIN workers : resize_channel(j)
    \/ join
    \/ return_out

SpecResize == InitResize /\ [][NextResize]_vars

\* ================================================================== claims
IsPrefix(s, t) == Len(s) <= Len(t) /\ \A i \in 1..Len(s) : s[i] = t[i]

\* C1: in every state of train_seg the labeled and the unlabeled pool are
\* disjoint and together they are exactly the index range 0..N-1 of the
\* training dataset.
C1_PoolInvariant ==
    /\ Range(labeled_idx) \cap Range(unlabeled_idx) = {}
    /\ Range(labeled_idx) \cup Range(unlabeled_idx) = 0..(dataset_len - 1)

\* C1 witness: two selection steps have run and both pools are non-empty
C1_Witness ==
    /\ selections = 2
    /\ labeled_idx # <<>>
    /\ unlabeled_idx # <<>>

\* number of indices labeled after k selection steps on a dataset of n
LabeledAfter(n, k) == Min(n, k * images_per_cycle)

\* C2: the labeled pool never holds an index twice; it is append-only; the
\* indices that join it in a step are exactly those that leave the unlabeled
\* pool in that step; after k selection steps min(N, k*b) indices are labeled
\* and the other N - min(N, k*b) are unlabeled (2 steps of 2 on 5 images:
\* 4 labeled, 1 unlabeled).
C2_NeverSelectedTwice ==
    /\ [](/\ Cardinality(Range(labeled_idx)) = Len(labeled_idx)
          /\ Len(labeled_idx) = LabeledAfter(dataset_len, selections)
          /\ Len(unlabeled_idx) =
                dataset_len - LabeledAfter(dataset_len, selections))
    /\ [][/\ IsPrefix(labeled_idx, labeled_idx')
          /\ Range(labeled_idx') \ Range(labeled_idx) =
                Range(unlabeled_idx) \ Range(unlabeled_idx')]_vars

\* C2 witness: the run of the example, 2 selection steps on the largest
\* dataset, 4 distinct labeled indices when the budget is 2
C2_Witness ==
    /\ dataset_len = MaxPool
    /\ selections = 2
    /\ Cardinality(Range(labeled_idx)) = LabeledAfter(MaxPool, 2)
    /\ Len(unlabeled_idx) = MaxPool - LabeledAfter(MaxPool, 2)

\* C3: a selection step on the unlabeled pool U with budget b returns exactly
\* min(b, |U|) distinct indices, all of them in U and none of them in the
\* labeled pool; with b > |U| it returns the whole of U and raises nothing.
C3_SelectionSize ==
    [][pc = "select" =>
        /\ pc' = "resume"
        /\ failure' = "none"
        /\ Len(new_indices') = Min(images_per_cycle, Len(unlabeled_idx))
        /\ Cardinality(Range(new_indices')) = Len(new_indices')
        /\ Range(new_indices') \subseteq Range(unlabeled_idx)
        /\ Range(new_indices') \cap Range(labeled_idx) = {}
        /\ (images_per_cycle > Len(unlabeled_idx) =>
               Range(new_indices') = Range(unlabeled_idx))]_vars

\* C3 witness: a selection step met a non-empty pool smaller than the budget
\* and took all of it
C3_Witness ==
    /\ pc = "resume"
    /\ new_indices # <<>>
    /\ Len(new_indices) < images_per_cycle
    /\ unlabeled_idx = <<>>

\* archive copies written so far in this run
ArchivesWritten == {h \in HistoryPaths : archive_writes[h] > 0}

\* the value the best-accuracy tracker starts a cycle with
TrackerStart == IF loaded.exists THEN loaded.best_prec1 ELSE 0

\* what every step of the checkpoint stage does, whatever counts as best
CheckpointWrite ==
    /\ validate_passes = train_passes
    /\ latest_writes = train_passes - 1
    /\ latest_writes' = latest_writes + 1
    /\ fs'["latest"] = Checkpoint(epoch + 1, best_prec1', best_mAP', model)
    /\ best_prec1' = max(prec1, best_prec1)
    /\ best_mAP' = max(mAP1, best_mAP)
    /\ \/ best_writes' = best_writes + 1 /\ fs'["best"] = fs'["latest"]
       \/ best_writes' = best_writes /\ fs'["best"] = fs["best"]

C5_HistoryNeverOverwritten ==
    \A h \in HistoryPaths : archive_writes[h] <= 1

\* the command line is one the program has to reject
ConfigError == args.classes <= 0 \/ args.lr_mode \notin {"step", "poly"}

NothingWritten ==
    /\ latest_writes = 0
    /\ best_writes = 0
    /\ ArchivesWritten = {}

\* C6: with an unknown learning-rate mode or a non-positive class count the
\* run never completes and stops before any sample selection, selection
\* report, training pass, validation pass or checkpoint write.
C6_ConfigErrorsFailFast ==
    ConfigError =>
        /\ pc # "done"
        /\ selections = 0
        /\ csv_writes = 0
        /\ train_passes = 0
        /\ validate_passes = 0
        /\ NothingWritten

\* C7: with the evaluate flag set, train_seg is done right after exactly one
\* validation pass: no training pass, no parameter update, no checkpoint
\* write, and no cycle after the first one.
C7_EvaluateOnly ==
    args.evaluate =>
        /\ train_passes = 0
        /\ optimizer_steps = 0
        /\ NothingWritten
        /\ cycle = 0
        /\ selections <= 1
        /\ validation_accuracies = <<>>
        /\ pc \in {"parse_args", "cycle", "select", "resume", "evaluate",
                    "done", "failed"}
        /\ (pc = "done" <=> validate_passes = 1)
        /\ (pc # "done" => validate_passes = 0)

\* C7 witness: an evaluate-only run has finished
C7_Witness ==
    /\ args.evaluate
    /\ pc = "done"
    /\ validate_passes = 1

\* C8: when the resume path holds a checkpoint, then after the resume check
\* and before the epoch loop the epoch counter, the best accuracy and the
\* best mAP equal the values stored in that checkpoint.
C8_ResumeRestoresTrackers ==
    (pc = "evaluate" /\ loaded.exists) =>
        /\ start_epoch = loaded.epoch
        /\ best_prec1 = loaded.best_prec1
        /\ best_mAP = loaded.best_mAP

\* C9: when a resume path is given and no file exists there, nothing is
\* raised and the cycle runs from scratch: start epoch 0, best accuracy 0,
\* best mAP 0, the freshly built model, and the epochs 0..E-1 in order.
C9_MissingCheckpointRecoverable ==
    /\ [][pc = "resume" => pc' = "evaluate" /\ failure' = "none"]_vars
    /\ [](resume_missing =>
            /\ (pc = "evaluate" =>
                  /\ start_epoch = 0
                  /\ best_prec1 = 0
                  /\ best_mAP = 0
                  /\ model = "pretrained")
            /\ (pc = "epoch" => cycle_epochs = range(epoch))
            /\ (pc = "end_cycle" => cycle_epochs = range(args.epochs)))

\* C9 witness: a cycle whose resume check found no file has run all its
\* epochs
C9_Witness ==
    /\ resume_missing
    /\ pc = "end_cycle"
    /\ args.epochs = MaxEpochs
    /\ cycle_epochs = range(MaxEpochs)

\* C10: after cycle k the accuracy and the mAP sequence have k+1 entries
\* each, entries once recorded stay, and entry k is the best accuracy, or
\* the best mAP, validated in the epochs of cycle k alone.
C10_CycleRecord ==
    /\ [](Len(validation_accuracies) = cycle /\ Len(validation_mAPs) = cycle)
    /\ [][/\ IsPrefix(validation_accuracies, validation_accuracies')
          /\ IsPrefix(validation_mAPs, validation_mAPs')]_vars
    /\ [][pc = "end_cycle" =>
            /\ validation_accuracies' =
                  Append(validation_accuracies, seen_prec1)
            /\ validation_mAPs' = Append(validation_mAPs, seen_mAP)]_vars

\* positions of the last batch with label g and prediction p
Positions(g, p) == {i \in 1..Len(label) : label[i] = g /\ pred[i] = p}

\* positions of the last batch whose label is a class
InRange == {i \in 1..Len(label) : label[i] \in 0..(num_classes - 1)}

\* C11: fast_hist returns an n x n table whose entry (g, p) is the number of
\* positions with label g and prediction p; positions whose label is outside
\* 0..n-1, the ignore label 255 among them, count nowhere, so the entries
\* add up to the number of positions with a label in 0..n-1.
C11_FastHist ==
    eval_pc = "returned" =>
        /\ DOMAIN batch_hist = (0..(num_classes - 1)) \X (0..(num_classes - 1))
        /\ \A e \in DOMAIN batch_hist :
              batch_hist[e] = Cardinality(Positions(e[1], e[2]))
        /\ Total(batch_hist) = Cardinality(InRange)

\* C11 witness: a call with an ignored position and a counted one
C11_Witness ==
    /\ eval_pc = "returned"
    /\ \E i \in 1..Len(label) : label[i] = ignore_index
    /\ InRange # {}
    /\ Total(batch_hist) = Cardinality(InRange)
    /\ Total(batch_hist) < Len(label)

\* C12: the entries of the confusion histogram are never negative, none of
\* them decreases from batch to batch within a pass, and every pass, of
\* validate, test or test_ms, starts from the all-zero histogram.
C12_HistogramInvariant ==
    /\ [](\A e \in DOMAIN hist : hist[e] >= 0)
    /\ [](eval_pc = "loop" /\ eval_batches = 0 =>
             hist = zeros(num_classes))
    /\ [][eval_pc = "loop" /\ eval_pc' = "loop" =>
            \A e \in DOMAIN hist : hist'[e] >= hist[e]]_vars
    /\ [][eval_pc = "idle" /\ eval_pc' = "loop" =>
            \A e \in DOMAIN hist' : hist'[e] = 0]_vars

\* C12 witness: a second pass has started from zero after a pass that
\* counted pixels
C12_Witness ==
    /\ eval_passes = 2
    /\ carried > 0
    /\ eval_pc = "loop"
    /\ Total(hist) = 0

\* denominator of the IoU of class c
IoUDenominator(c) ==
    row_sum(hist, num_classes, c) + col_sum(hist, num_classes, c)
        - hist[<<c, c>>]

\* classes with a defined IoU
Defined == {c \in 0..(num_classes - 1) : IoUDenominator(c) # 0}

RECURSIVE Product(_, _)
Product(f, I) ==
    IF I = {} THEN 1
    ELSE LET i == CHOOSE j \in I : TRUE IN f[i] * Product(f, I \ {i})

\* the sum over the defined classes of hist[c,c] / denominator(c), as the
\* quotient of two integers
DefinedSum ==
    LET den == [c \in Defined |-> IoUDenominator(c)]
        common == Product(den, Defined)
    IN  Num(SumOver([c \in Defined |-> hist[<<c, c>>] * (common \div den[c])],
                    Defined),
            common)

\* a mean IoU has been reported for the histogram
Reported == eval_pc = "loop" /\ has_gt /\ eval_batches > 0

\* per class, the IoU is the quotient claimed, and NaN exactly without a
\* denominator
PerClassIoU ==
    \A c \in 0..(num_classes - 1) :
        LET iu == per_class_iu(hist, num_classes)[c]
        IN  /\ (iu.kind = "nan" <=> IoUDenominator(c) = 0)
            /\ (IoUDenominator(c) # 0 =>
                  iu = Num(hist[<<c, c>>], IoUDenominator(c)))

\* the reported mean is the mean over the defined classes
MeanOverDefined ==
    /\ current_mAP.kind = "num"
    /\ current_mAP.n * (DefinedSum.d * Cardinality(Defined)) =
          DefinedSum.n * current_mAP.d

\* C13 as stated: the IoU of a class is hist[c,c] / (row + column - hist[c,c])
\* and NaN exactly when that denominator is zero; the reported mean IoU is the
\* mean over the classes with a defined IoU and is never NaN.
C13_AsStated ==
    Reported => PerClassIoU /\ MeanOverDefined

\* C13 amended: as above, and the reported mean IoU is the mean over the
\* classes with a defined IoU whenever there is such a class; when no class
\* has a defined IoU (nothing counted yet) the mean itself is NaN.
C13_MeanIoU ==
    Reported =>
        /\ PerClassIoU
        /\ (Defined # {} => MeanOverDefined)
        /\ (Defined = {} => current_mAP = NaN)

\* C13 witness: a mean was reported with one class absent and one present
C13_Witness ==
    /\ Reported
    /\ num_classes = 2
    /\ Cardinality(Defined) = 1
    /\ current_mAP.kind = "num"

\* sum over the updates u of f(u[k])
RECURSIVE SumSeq(_, _)
SumSeq(u, k) ==
    IF k = 0 THEN [vn |-> 0, n |-> 0, v |-> 0]
    ELSE LET r == SumSeq(u, k - 1)
         IN  [vn |-> r.vn + u[k].val * u[k].n,
              n |-> r.n + u[k].n,
              v |-> r.v + u[k].val]

\* C14: after the update(v_i, n_i) calls since the last reset, val is the last
\* v, sum is the sum of the v_i * n_i, count is the sum of the n_i and avg is
\* sum / count, which with all weights 1 is the mean of the v_i; after a
\* reset, and on a new meter, val, avg, sum and count are all zero.
C14_RunningMeter ==
    LET s == SumSeq(updates, Len(updates))
    IN  /\ updates = <<>> =>
              val = 0 /\ avg = Num(0, 1) /\ sum = 0 /\ count = 0
        /\ updates # <<>> =>
              /\ val = updates[Len(updates)].val
              /\ sum = s.vn
              /\ count = s.n
              /\ avg.kind = "num"
              /\ avg.d # 0
              /\ avg.n * count = sum * avg.d
              /\ ((\A k \in 1..Len(updates) : updates[k].n = 1) =>
                    avg.n * Len(updates) = s.v * avg.d)

\* C14 witness: three updates with different values, one of weight 2
C14_Witness ==
    /\ Len(updates) = 3
    /\ updates[1].val # updates[2].val
    /\ updates[2].n = 2
    /\ updates[3].val > 0
    /\ count > 3
    /\ avg.n * count = sum * avg.d

\* the call of this epoch has returned
LrReturned == lr_pc = "returned"

RankingStep == batch_i' = batch_i + 1 /\ ranked_batches' = ranked_batches + 1

\* within one call of train the counters only grow, by B*(B-1)/2 pairs for a
\* post-warm-up batch of B images, and the correct pairs are among the total
RankingWithinCall ==
    /\ [](correctly_ranked <= total_ranked)
    /\ [][RankingStep =>
            /\ 2 * (total_ranked' - total_ranked) =
                 batch_size' * (batch_size' - 1)
            /\ correctly_ranked' >= correctly_ranked]_vars
    /\ [][train_pc = "batches" =>
            total_ranked' >= total_ranked
              /\ correctly_ranked' >= correctly_ranked]_vars

\* C16: the ranking counters never decrease in the whole run, from batch to
\* batch, epoch to epoch and cycle to cycle; correctly_ranked never exceeds
\* total_ranked, and total_ranked grows by B*(B-1)/2 for each post-warm-up
\* batch of B images.
C16_RankingCounters ==
    /\ RankingWithinCall
    /\ [][total_ranked' >= total_ranked
            /\ correctly_ranked' >= correctly_ranked]_vars

\* a batch has been trained on
BatchDone == train_pc = "batches" /\ batch_i > 0

\* C17: the loss back-propagated for a batch is the segmentation loss plus
\* lambda times the ranking loss exactly when the loss-prediction strategy is
\* active and the epoch is past the warm-up threshold (epoch > 1), and the
\* segmentation loss alone otherwise; the loss head is detached exactly in
\* the epochs >= 150 of the strategy, all of them past the warm-up.
C17_WarmUpGating ==
    BatchDone =>
      /\ (use_loss_prediction_al /\ train_epoch > 1 =>
            loss = {"loss.mean()",
                    "active_learning_lamda * loss_prediction_loss"})
      /\ (~(use_loss_prediction_al /\ train_epoch > 1) =>
            loss = {"loss.mean()"})
      /\ (detach_lp <=> use_loss_prediction_al /\ train_epoch >= 150)
      /\ (detach_lp =>
            "active_learning_lamda * loss_prediction_loss" \in loss)

\* C17 witness: a batch of epoch 150 with the head detached and both terms
C17_Witness ==
    /\ BatchDone
    /\ use_loss_prediction_al
    /\ train_epoch = 150
    /\ detach_lp
    /\ Cardinality(loss) = 2

\* the function has returned from the resizing path
Resized == resize_pc = "returned" /\ ~size_matches

\* C18: once the workers are started there is one per output channel; a cell
\* out[i, j] is only ever written by the worker of channel j and never twice;
\* when resize_4d_tensor returns, every worker has finished and has been
\* joined, every cell has been written exactly once, and the result is what
\* sequential execution gives, whatever the interleaving was.
C18_ParallelResize ==
    /\ resize_pc \in {"join", "returned"} /\ ~size_matches =>
          /\ DOMAIN workers = 0..(tensor.c - 1)
          /\ \A j \in DOMAIN workers : workers[j].state # "created"
    /\ \A cell \in DOMAIN writers :
          /\ Len(writers[cell]) <= 1
          /\ \A k \in 1..Len(writers[cell]) : writers[cell][k] = cell[2]
    /\ Resized =>
          /\ joined = tensor.c
          /\ \A j \in DOMAIN workers : workers[j].state = "finished"
          /\ DOMAIN writers = Cells(tensor.n, tensor.c)
          /\ \A cell \in DOMAIN writers : Len(writers[cell]) = 1
          /\ returned = sequential(tensor)

\* C18 witness: two workers, two images each, returned after both were joined
C18_Witness ==
    /\ Resized
    /\ tensor.c = 2
    /\ tensor.n = 2
    /\ joined = 2
    /\ returned = sequential(tensor)
    /\ tensor.data[<<0, 0>>] # tensor.data[<<1, 1>>]

\* the checkpoint at the resume path, if there is one
ResumeCheckpoint == IF args.resume = "" THEN NoFile ELSE fs[args.resume]

\* C19: every cycle, the first and the later ones alike, builds a fresh model
\* and then runs the resume check; when the checkpoint at the resume path
\* exists the check loads its weights and best accuracy and sets the start of
\* the epoch loop to its stored epoch, so the cycle trains no epoch index below
\* the stored one, and with a stored epoch >= args.epochs it trains none and
\* records the checkpoint's best accuracy.  A checkpoint outside the run's
\* outputs is never rewritten, so every cycle loads the same content.
C19_ResumeInEveryCycle ==
    /\ [][pc = "cycle" /\ cycle < NumCycles => model' = "pretrained"]_vars
    /\ [][pc = "resume" /\ ResumeCheckpoint.exists =>
            /\ loaded' = ResumeCheckpoint
            /\ model' = ResumeCheckpoint.state_dict
            /\ best_prec1' = ResumeCheckpoint.best_prec1
            /\ start_epoch' = ResumeCheckpoint.epoch]_vars
    /\ [](pc \in {"epoch", "train", "validate", "checkpoint", "end_cycle"}
            /\ args.resume # "" => loaded.exists \/ resume_missing)
    /\ [](loaded.exists =>
            \A k \in 1..Len(cycle_epochs) : cycle_epochs[k] >= loaded.epoch)
    /\ [](pc = "end_cycle" /\ loaded.exists /\ loaded.epoch >= args.epochs =>
            cycle_epochs = <<>> /\ best_prec1 = loaded.best_prec1)
    /\ [][pc = "end_cycle" /\ loaded.exists /\ loaded.epoch >= args.epochs =>
            validation_accuracies' =
              Append(validation_accuracies, loaded.best_prec1)]_vars
    /\ [][fs'["ext"] = fs["ext"]]_vars

\* C19 witness: a later cycle resumed at a stored epoch that leaves it no
\* epoch to train
C19_Witness ==
    /\ cycle = 1
    /\ pc = "end_cycle"
    /\ args.epochs > 0
    /\ loaded.exists
    /\ loaded.epoch >= args.epochs
    /\ cycle_epochs = <<>>
    /\ best_prec1 = loaded.best_prec1
    /\ best_prec1 > 0
====
